---- MODULE Spec2Model ----
(***************************************************************************)
(* Model of hailo_apps_infra/common/hailo_rpi_common.py:                   *)
(*   - get_numpy_from_buffer and its per-format handlers (the frame buffer *)
(*     decoder), as a state machine whose steps are the statements of the  *)
(*     function, run by one or by two callers on distinct buffers;         *)
(*   - the host probes detect_pkg_installed, detect_hailo_arch and         *)
(*     get_caps_from_pad, each as one atomic call.                         *)
(***************************************************************************)
EXTENDS Integers, Sequences, FiniteSets, TLC

\* ------------------------------------------------------------------ bounds
MaxWidth == 4
MaxHeight == 3
ConcWidth == 2
ConcHeight == 2
MaxOut == 6

\* Largest buffer the single-caller specification offers: one byte more than
\* the largest frame (RGB at the largest geometry).
MaxBytes == MaxWidth * MaxHeight * 3 + 1

Threads == {1, 2}
Buffers == {1, 2}

\* Format arguments offered to get_numpy_from_buffer: the three table keys
\* and two tags that are not in the table.
Formats == {"RGB", "NV12", "YUYV", "FOO", "I420"}

VARIABLES
    mem,             \* buffer handle -> the bytes of the frame memory
    mapped,          \* buffer handle -> number of read mappings now held
    mapCalls,        \* buffer handle -> number of buffer.map calls that succeeded
    unmapCalls,      \* buffer handle -> number of buffer.unmap calls
    FORMAT_HANDLERS, \* the module-level dispatch table
    call,            \* caller -> activation record of get_numpy_from_buffer
    probe            \* the current call of one of the host probes

decVars == <<mem, mapped, mapCalls, unmapCalls, FORMAT_HANDLERS, call>>
vars == <<mem, mapped, mapCalls, unmapCalls, FORMAT_HANDLERS, call, probe>>

\* ------------------------------------------------------- values and helpers
Min(a, b) == IF a < b THEN a ELSE b

\* What a read through a view yields once the memory under it is gone.
Freed == 0 - 1

NoView == [h |-> 0, off |-> 0, n |-> 0]
NoExc == [type |-> "", msg |-> <<>>]
NoVal == [kind |-> "none", arrays |-> <<>>]

\* Python's None as the value of an expression that did not run yet.
NoRet == [ok |-> TRUE, val |-> NoVal, exc |-> NoExc]

Ok(v) == [ok |-> TRUE, val |-> v, exc |-> NoExc]
Raise(type, msg) == [ok |-> FALSE, val |-> NoVal, exc |-> [type |-> type, msg |-> msg]]

\* Product of the extents of a shape.
RECURSIVE Prod(_)
Prod(shape) == IF shape = <<>> THEN 1 ELSE Head(shape) * Prod(Tail(shape))

\* Element offset of index idx in a C-contiguous array of the given shape.
RECURSIVE Offset(_, _)
Offset(shape, idx) ==
    IF shape = <<>> THEN 0
    ELSE Head(idx) * Prod(Tail(shape)) + Offset(Tail(shape), Tail(idx))

\* The bytes a view (buffer handle, offset, length) shows now.
ViewBytes(v) ==
    [i \in 1..v.n |->
        IF v.h \in Buffers /\ v.off + i <= Len(mem[v.h])
        THEN mem[v.h][v.off + i] ELSE Freed]

\* data[:k] and data[k:] of a byte view.
SliceTo(v, k) == [h |-> v.h, off |-> v.off, n |-> Min(k, v.n)]
SliceFrom(v, k) == [h |-> v.h, off |-> v.off + Min(k, v.n), n |-> v.n - Min(k, v.n)]

\* np.ndarray(shape=..., dtype=np.uint8, buffer=...): a view of the first
\* Prod(shape) bytes of the buffer; numpy raises TypeError when the buffer
\* is too small for the requested array.
ndarray(shape, buffer) ==
    IF buffer.n < Prod(shape)
    THEN Raise("TypeError", <<"buffer is too small for requested array">>)
    ELSE Ok([shape |-> shape, owned |-> FALSE, base |-> buffer, data |-> <<>>])

\* A copy() that is left out: the view itself is handed on.
copy_view(r) == r

\* ndarray.copy(): an array owning a copy of the elements as they are now.
\* An exception raised while building the receiver propagates.
copy(r) ==
    IF ~r.ok THEN r
    ELSE Ok([shape |-> r.val.shape, owned |-> TRUE, base |-> NoView,
             data |-> SubSeq(ViewBytes(r.val.base), 1, Prod(r.val.shape))])

\* The elements of an array in memory order, as a reader sees them now.
Elements(a) ==
    IF a.owned THEN a.data ELSE SubSeq(ViewBytes(a.base), 1, Prod(a.shape))

\* a[idx] for a full index tuple.
Item(a, idx) == Elements(a)[Offset(a.shape, idx) + 1]

One(r) == IF ~r.ok THEN r ELSE Ok([kind |-> "array", arrays |-> <<r.val>>])

\* ------------------------------------------------------------ the handlers
handle_rgb(map_info, width, height) ==
    One(copy(ndarray(<<height, width, 3>>, map_info.data)))

\* A chroma plane laid out as rows of interleaved bytes, (height/2, width).
handle_nv12_flatchroma(map_info, width, height) ==
    LET y_plane_size == width * height
        y_plane == copy(ndarray(<<height, width>>, SliceTo(map_info.data, y_plane_size)))
        uv_plane == copy(ndarray(<<height \div 2, width>>,
                                 SliceFrom(map_info.data, y_plane_size)))
    IN  IF ~y_plane.ok THEN y_plane
        ELSE IF ~uv_plane.ok THEN uv_plane
        ELSE Ok([kind |-> "tuple", arrays |-> <<y_plane.val, uv_plane.val>>])

\* A chroma plane sliced at uv_plane_size instead of y_plane_size.
handle_nv12_wrongplane(map_info, width, height) ==
    LET y_plane_size == width * height
        uv_plane_size == (width * height) \div 2
        y_plane == copy(ndarray(<<height, width>>, SliceTo(map_info.data, y_plane_size)))
        uv_plane == copy(ndarray(<<height \div 2, width \div 2, 2>>,
                                 SliceFrom(map_info.data, uv_plane_size)))
    IN  IF ~y_plane.ok THEN y_plane
        ELSE IF ~uv_plane.ok THEN uv_plane
        ELSE Ok([kind |-> "tuple", arrays |-> <<y_plane.val, uv_plane.val>>])

handle_nv12(map_info, width, height) ==
    LET y_plane_size == width * height
        uv_plane_size == (width * height) \div 2
        y_plane == copy(ndarray(<<height, width>>, SliceTo(map_info.data, y_plane_size)))
        uv_plane == copy(ndarray(<<height \div 2, width \div 2, 2>>,
                                 SliceFrom(map_info.data, y_plane_size)))
    IN  IF ~y_plane.ok THEN y_plane
        ELSE IF ~uv_plane.ok THEN uv_plane
        ELSE Ok([kind |-> "tuple", arrays |-> <<y_plane.val, uv_plane.val>>])

handle_yuyv(map_info, width, height) ==
    One(copy(ndarray(<<height, width, 2>>, map_info.data)))

FormatHandlersTable ==
    [f \in {"RGB", "NV12", "YUYV"} |->
        CASE f = "RGB" -> "handle_rgb"
          [] f = "NV12" -> "handle_nv12"
          [] f = "YUYV" -> "handle_yuyv"]

\* FORMAT_HANDLERS.get(format): the handler, or "" for None.
HandlerGet(format) ==
    IF format \in DOMAIN FORMAT_HANDLERS THEN FORMAT_HANDLERS[format] ELSE ""

\* handler(map_info, width, height) for a handler taken from the table.
Apply(handler, map_info, width, height) ==
    CASE handler = "handle_rgb" -> handle_rgb(map_info, width, height)
      [] handler = "handle_nv12" -> handle_nv12(map_info, width, height)
      [] handler = "handle_yuyv" -> handle_yuyv(map_info, width, height)

\* ------------------------------------------------- get_numpy_from_buffer
\* A map_info kept in one module-level variable: every handler reads the
\* mapping of whichever caller mapped.
MapInfoShared(t) ==
    IF \E u \in Threads : call[u].success /\ call[u].pc # "done"
    THEN call[CHOOSE u \in Threads : call[u].success /\ call[u].pc # "done"].map_info
    ELSE call[t].map_info

\* The mapping a caller's handler reads: its own local map_info.
MapInfoOf(t) == call[t].map_info

NewCall(pc, b, format, width, height) ==
    [pc |-> pc, buffer |-> b, format |-> format, width |-> width, height |-> height,
     success |-> FALSE, map_info |-> [data |-> NoView], handler |-> "",
     handlerCalls |-> 0, input |-> <<>>, ret |-> NoRet]

\* Frame bytes as the streaming framework delivers them: a ramp, different
\* for each buffer.
Ramp(b, n) == [i \in 1..n |-> (i - 1 + 100 * (b - 1)) % 256]

\* The caller enters get_numpy_from_buffer(buffer, format, width, height).
Call(t) ==
    /\ call[t].pc = "idle"
    /\ call' = [call EXCEPT ![t].pc = "map"]
    /\ UNCHANGED <<mem, mapped, mapCalls, unmapCalls, FORMAT_HANDLERS, probe>>

\* A map whose success flag is not tested: the call goes on to the dispatch.
Map_Unchecked(t) ==
    /\ call[t].pc = "map"
    /\ \E success \in BOOLEAN :
        LET b == call[t].buffer IN
        IF success
        THEN /\ mapped' = [mapped EXCEPT ![b] = @ + 1]
             /\ mapCalls' = [mapCalls EXCEPT ![b] = @ + 1]
             /\ call' = [call EXCEPT ![t].pc = "dispatch",
                                     ![t].success = TRUE,
                                     ![t].input = mem[b],
                                     ![t].map_info =
                                         [data |-> [h |-> b, off |-> 0, n |-> Len(mem[b])]]]
        ELSE /\ call' = [call EXCEPT ![t].pc = "dispatch"]
             /\ UNCHANGED <<mapped, mapCalls>>
    /\ UNCHANGED <<mem, unmapCalls, FORMAT_HANDLERS, probe>>

\* success, map_info = buffer.map(Gst.MapFlags.READ)
\* if not success: raise ValueError("Buffer mapping failed")
Map(t) ==
    /\ call[t].pc = "map"
    /\ \E success \in BOOLEAN :
        LET b == call[t].buffer IN
        IF success
        THEN /\ mapped' = [mapped EXCEPT ![b] = @ + 1]
             /\ mapCalls' = [mapCalls EXCEPT ![b] = @ + 1]
             /\ call' = [call EXCEPT ![t].pc = "dispatch",
                                     ![t].success = TRUE,
                                     ![t].input = mem[b],
                                     ![t].map_info =
                                         [data |-> [h |-> b, off |-> 0, n |-> Len(mem[b])]]]
        ELSE /\ call' = [call EXCEPT ![t].pc = "done",
                                     ![t].ret = Raise("ValueError", <<"Buffer mapping failed">>)]
             /\ UNCHANGED <<mapped, mapCalls>>
    /\ UNCHANGED <<mem, unmapCalls, FORMAT_HANDLERS, probe>>

\* A dispatch that falls back to the RGB handler for an unknown format.
Dispatch_DefaultRGB(t) ==
    /\ call[t].pc = "dispatch"
    /\ LET handler == HandlerGet(call[t].format) IN
        call' = [call EXCEPT ![t].pc = "handler",
                             ![t].handler = IF handler = "" THEN "handle_rgb" ELSE handler]
    /\ UNCHANGED <<mem, mapped, mapCalls, unmapCalls, FORMAT_HANDLERS, probe>>

\* handler = FORMAT_HANDLERS.get(format)
\* if handler is None: raise ValueError(f"Unsupported format: {format}")
Dispatch(t) ==
    /\ call[t].pc = "dispatch"
    /\ LET handler == HandlerGet(call[t].format) IN
        IF handler = ""
        THEN call' = [call EXCEPT ![t].pc = "finally",
                                  ![t].ret = Raise("ValueError",
                                                   <<"Unsupported format: ", call[t].format>>)]
        ELSE call' = [call EXCEPT ![t].pc = "handler", ![t].handler = handler]
    /\ UNCHANGED <<mem, mapped, mapCalls, unmapCalls, FORMAT_HANDLERS, probe>>

\* A handler call outside any try/finally: when the handler raises, the
\* exception leaves the function at once and the unmap is skipped.
Handler_NoFinally(t) ==
    /\ call[t].pc = "handler"
    /\ LET r == Apply(call[t].handler, MapInfoOf(t), call[t].width, call[t].height) IN
        call' = [call EXCEPT ![t].pc = IF r.ok THEN "finally" ELSE "done",
                             ![t].handlerCalls = @ + 1,
                             ![t].ret = r]
    /\ UNCHANGED <<mem, mapped, mapCalls, unmapCalls, FORMAT_HANDLERS, probe>>

\* return handler(map_info, width, height)
Handler(t) ==
    /\ call[t].pc = "handler"
    /\ call' = [call EXCEPT ![t].pc = "finally",
                            ![t].handlerCalls = @ + 1,
                            ![t].ret = Apply(call[t].handler, MapInfoOf(t),
                                             call[t].width, call[t].height)]
    /\ UNCHANGED <<mem, mapped, mapCalls, unmapCalls, FORMAT_HANDLERS, probe>>

\* finally: buffer.unmap(map_info); then the pending return or raise completes.
Unmap(t) ==
    /\ call[t].pc = "finally"
    /\ LET b == call[t].buffer IN
        /\ mapped' = [mapped EXCEPT ![b] = @ - 1]
        /\ unmapCalls' = [unmapCalls EXCEPT ![b] = @ + 1]
    /\ call' = [call EXCEPT ![t].pc = "done"]
    /\ UNCHANGED <<mem, mapCalls, FORMAT_HANDLERS, probe>>

\* The call on buffer b has returned its array(s) to the caller.
Returned(b) ==
    \E t \in Threads : call[t].buffer = b /\ call[t].pc = "done" /\ call[t].ret.ok

\* After the call returned, the framework reuses the frame memory: it writes
\* the next frame over the old one, one more byte with each step.
MutateBuffer(b) ==
    /\ Returned(b)
    /\ mapped[b] = 0
    /\ \E i \in 1..Len(mem[b]) :
        /\ mem[b][i] = Ramp(b, Len(mem[b]))[i]
        /\ \A k \in 1..(i - 1) : mem[b][k] # Ramp(b, Len(mem[b]))[k]
        /\ mem' = [mem EXCEPT ![b][i] = 255 - @]
    /\ UNCHANGED <<mapped, mapCalls, unmapCalls, FORMAT_HANDLERS, call, probe>>

\* After the call returned, the framework releases the frame memory.
ReleaseBuffer(b) ==
    /\ Returned(b)
    /\ mapped[b] = 0
    /\ mem[b] # <<>>
    /\ mem' = [mem EXCEPT ![b] = <<>>]
    /\ UNCHANGED <<mapped, mapCalls, unmapCalls, FORMAT_HANDLERS, call, probe>>

\* Python values the probes return.
PyNone == [t |-> "None", s |-> "", n |-> 0, items |-> <<>>]
PyBool(v) == [t |-> "bool", s |-> IF v THEN "True" ELSE "False", n |-> 0, items |-> <<>>]
PyStr(v) == [t |-> "str", s |-> v, n |-> 0, items |-> <<>>]
PyInt(v) == [t |-> "int", s |-> "", n |-> v, items |-> <<>>]
PyTuple(vs) == [t |-> "tuple", s |-> "", n |-> 0, items |-> vs]

ProbeIdle == [fn |-> "", pc |-> "idle", outcome |-> "", stdout |-> <<>>,
              pad |-> [format |-> "", width |-> 0, height |-> 0],
              ret |-> PyNone, raised |-> ""]

InitCommon ==
    /\ mapped = [b \in Buffers |-> 0]
    /\ mapCalls = [b \in Buffers |-> 0]
    /\ unmapCalls = [b \in Buffers |-> 0]
    /\ FORMAT_HANDLERS = FormatHandlersTable
    /\ probe = ProbeIdle

\* One caller, every format, every geometry, every buffer length.
Init ==
    /\ InitCommon
    /\ \E n \in 0..MaxBytes : mem = [b \in Buffers |-> IF b = 1 THEN Ramp(1, n) ELSE <<>>]
    /\ \E f \in Formats, w \in 1..MaxWidth, h \in 1..MaxHeight :
        call = [t \in Threads |->
                    IF t = 1 THEN NewCall("idle", 1, f, w, h)
                    ELSE NewCall("off", 2, "RGB", 1, 1)]

\* Buffer lengths of the two-caller specification: empty, an NV12 frame and
\* an RGB frame of the geometry ConcWidth x ConcHeight.
ConcLens ==
    {0,
     ConcWidth * ConcHeight + (ConcHeight \div 2) * (ConcWidth \div 2) * 2,
     ConcWidth * ConcHeight * 3}

\* Two callers, each on its own buffer handle.
InitConc ==
    /\ InitCommon
    /\ \E n1 \in ConcLens, n2 \in ConcLens :
        mem = [b \in Buffers |-> IF b = 1 THEN Ramp(1, n1) ELSE Ramp(2, n2)]
    /\ \E f1 \in Formats, f2 \in Formats :
        call = [t \in Threads |->
                    NewCall("idle", t, IF t = 1 THEN f1 ELSE f2, ConcWidth, ConcHeight)]

Next ==
    \/ \E t \in Threads : Call(t)
    \/ \E t \in Threads : Map(t)
    \/ \E t \in Threads : Dispatch(t)
    \/ \E t \in Threads : Handler(t)
    \/ \E t \in Threads : Unmap(t)
    \/ \E b \in Buffers : MutateBuffer(b)
    \/ \E b \in Buffers : ReleaseBuffer(b)

Spec == Init /\ [][Next]_vars

SpecConc == InitConc /\ [][Next]_vars

\* ------------------------------------------------------------ host probes
\* How the external process ends.
Outcomes == {"exit0", "nonzero", "spawn_failed"}

\* subprocess.check_output: the exception it raises, "" when it returns.
check_output(outcome) ==
    CASE outcome = "exit0" -> ""
      [] outcome = "nonzero" -> "CalledProcessError"
      [] outcome = "spawn_failed" -> "FileNotFoundError"

\* subprocess.run without check=True: raises only when the spawn fails.
run(outcome) == IF outcome = "spawn_failed" THEN "FileNotFoundError" ELSE ""

\* try: check_output(...); return True / except CalledProcessError: return False
detect_pkg_installed ==
    /\ probe.pc = "idle"
    /\ \E outcome \in Outcomes :
        LET exc == check_output(outcome) IN
        probe' = [probe EXCEPT !.fn = "detect_pkg_installed", !.pc = "done",
                               !.outcome = outcome,
                               !.ret = IF exc = "" THEN PyBool(TRUE)
                                       ELSE IF exc = "CalledProcessError" THEN PyBool(FALSE)
                                       ELSE PyNone,
                               !.raised = IF exc \in {"", "CalledProcessError"} THEN "" ELSE exc]
    /\ UNCHANGED decVars

\* The text of hailortcli's output, in units of the substrings the scan
\* looks for: "HAILO8L" is "HAILO8" followed by "L".
Tokens == {"Device Architecture", "HAILO8", "L", "\n", "x"}

RECURSIVE SeqsUpTo(_, _)
SeqsUpTo(S, n) ==
    IF n = 0 THEN {<<>>}
    ELSE LET shorter == SeqsUpTo(S, n - 1)
         IN  shorter \cup {Append(q, x) : q \in {r \in shorter : Len(r) = n - 1}, x \in S}

\* needle in haystack, for Python strings.
Contains(haystack, needle) ==
    \E i \in 0..(Len(haystack) - Len(needle)) :
        SubSeq(haystack, i + 1, i + Len(needle)) = needle

\* str.split('\n')
RECURSIVE Split(_)
Split(text) ==
    IF \A i \in 1..Len(text) : text[i] # "\n" THEN <<text>>
    ELSE LET i == CHOOSE j \in 1..Len(text) :
                      text[j] = "\n" /\ \A k \in 1..(j - 1) : text[k] # "\n"
         IN  <<SubSeq(text, 1, i - 1)>> \o Split(SubSeq(text, i + 1, Len(text)))

\* A mis-ordered scan: tests "HAILO8" before "HAILO8L".
RECURSIVE ScanLines_H8First(_)
ScanLines_H8First(lines) ==
    IF lines = <<>> THEN PyNone
    ELSE IF Contains(Head(lines), <<"Device Architecture">>)
         THEN IF Contains(Head(lines), <<"HAILO8">>) THEN PyStr("hailo8")
              ELSE IF Contains(Head(lines), <<"HAILO8", "L">>) THEN PyStr("hailo8l")
              ELSE ScanLines_H8First(Tail(lines))
         ELSE ScanLines_H8First(Tail(lines))

\* for line in result.stdout.split('\n'): ... ; return None after the loop
RECURSIVE ScanLines(_)
ScanLines(lines) ==
    IF lines = <<>> THEN PyNone
    ELSE IF Contains(Head(lines), <<"Device Architecture">>)
         THEN IF Contains(Head(lines), <<"HAILO8", "L">>) THEN PyStr("hailo8l")
              ELSE IF Contains(Head(lines), <<"HAILO8">>) THEN PyStr("hailo8")
              ELSE ScanLines(Tail(lines))
         ELSE ScanLines(Tail(lines))

\* try: run; returncode check; scan / except Exception: return None
detect_hailo_arch ==
    /\ probe.pc = "idle"
    /\ \E outcome \in Outcomes :
        \E stdout \in IF outcome = "exit0" THEN SeqsUpTo(Tokens, MaxOut) ELSE {<<>>} :
            LET exc == run(outcome) IN
            probe' = [probe EXCEPT !.fn = "detect_hailo_arch", !.pc = "done",
                                   !.outcome = outcome, !.stdout = stdout,
                                   !.ret = IF exc # "" THEN PyNone
                                           ELSE IF outcome # "exit0" THEN PyNone
                                           ELSE ScanLines(Split(stdout))]
    /\ UNCHANGED decVars

\* What pad.get_current_caps() can give: no caps, caps without a structure
\* at index 0, caps with one.
CapsStates == {"unnegotiated", "no_structure", "structure"}

get_caps_from_pad ==
    /\ probe.pc = "idle"
    /\ \E caps \in CapsStates, format \in Formats, width \in 1..MaxWidth, height \in 1..MaxHeight :
        /\ caps # "structure" => (format = "RGB" /\ width = 1 /\ height = 1)
        /\ probe' = [probe EXCEPT
                !.fn = "get_caps_from_pad", !.pc = "done", !.outcome = caps,
                !.pad = [format |-> format, width |-> width, height |-> height],
                !.ret = IF caps # "unnegotiated"
                        THEN IF caps = "structure"
                             THEN PyTuple(<<PyStr(format), PyInt(width), PyInt(height)>>)
                             ELSE PyNone
                        ELSE PyTuple(<<PyNone, PyNone, PyNone>>)]
    /\ UNCHANGED decVars

InitProbe ==
    /\ InitCommon
    /\ mem = [b \in Buffers |-> <<>>]
    /\ call = [t \in Threads |-> NewCall("off", t, "RGB", 1, 1)]

NextProbe ==
    \/ detect_pkg_installed
    \/ detect_hailo_arch
    \/ get_caps_from_pad

SpecProbe == InitProbe /\ [][NextProbe]_vars

\* ------------------------------------------------------------- properties
Supported == {"RGB", "NV12", "YUYV"}

Done(t) == call[t].pc = "done"

\* Bytes a frame of the given format and geometry occupies (sum of the
\* planes' extents).
ImpliedLen(format, width, height) ==
    CASE format = "RGB" -> height * width * 3
      [] format = "YUYV" -> height * width * 2
      [] format = "NV12" -> height * width + (height \div 2) * (width \div 2) * 2

MapError == Raise("ValueError", <<"Buffer mapping failed">>)
UnsupportedError(format) == Raise("ValueError", <<"Unsupported format: ", format>>)

\* idx is a valid index of array a.
InShape(a, idx) ==
    /\ Len(idx) = Len(a.shape)
    /\ \A j \in 1..Len(idx) : idx[j] >= 0 /\ idx[j] < a.shape[j]

\* C1: whenever buffer.map succeeded, buffer.unmap has been called exactly
\* once on that buffer by the time the call has returned or raised, and not
\* at all before; the mapping is held exactly until then. This covers the
\* normal return, the unsupported format and a raising handler.
C1_UnmapOnEveryExit ==
    \A t \in Threads :
        call[t].success =>
            /\ unmapCalls[call[t].buffer] = (IF Done(t) THEN 1 ELSE 0)
            /\ mapped[call[t].buffer] = (IF Done(t) THEN 0 ELSE 1)
            /\ mapCalls[call[t].buffer] = 1

\* The handler raised on a buffer shorter than the geometry implies, and the
\* call has left with the buffer unmapped once.
C1_Witness ==
    \E t \in Threads :
        /\ Done(t) /\ call[t].success
        /\ call[t].handlerCalls = 1
        /\ call[t].ret.exc.type = "TypeError"
        /\ unmapCalls[call[t].buffer] = 1

\* C2: when buffer.map reports failure the call raises the buffer-mapping
\* error, returns nothing, never looks up or calls a handler and never
\* calls buffer.unmap, whatever the format argument is.
C2_MapFailure ==
    \A t \in Threads :
        (Done(t) /\ ~call[t].success) =>
            /\ call[t].ret = MapError
            /\ call[t].handler = ""
            /\ call[t].handlerCalls = 0
            /\ unmapCalls[call[t].buffer] = 0
            /\ mapped[call[t].buffer] = 0

\* The map failed for a format that is not in the table.
C2_Witness ==
    \E t \in Threads :
        /\ Done(t) /\ ~call[t].success
        /\ call[t].format \notin Supported
        /\ call[t].ret.exc.msg = <<"Buffer mapping failed">>

\* C3: for a format outside RGB, NV12, YUYV and a successful map, the call
\* raises the unsupported-format error carrying the format, returns no
\* array, calls no handler, and buffer.unmap was called exactly once.
C3_UnsupportedFormat ==
    \A t \in Threads :
        (Done(t) /\ call[t].success /\ call[t].format \notin Supported) =>
            /\ call[t].ret = UnsupportedError(call[t].format)
            /\ call[t].ret.val.arrays = <<>>
            /\ call[t].handler = ""
            /\ call[t].handlerCalls = 0
            /\ unmapCalls[call[t].buffer] = 1

\* Format "FOO" on a mapped buffer has been rejected.
C3_Witness ==
    \E t \in Threads :
        /\ Done(t) /\ call[t].success
        /\ call[t].format = "FOO"
        /\ ~call[t].ret.ok
        /\ unmapCalls[call[t].buffer] = 1

\* C4: for a supported format and a buffer of exactly the implied length,
\* the call returns one (height, width, 3) array for RGB, one
\* (height, width, 2) array for YUYV, and for NV12 the pair of a
\* (height, width) luma and a (height div 2, width div 2, 2) chroma array;
\* the elements returned number as many as the buffer has bytes.
C4_Shapes ==
    \A t \in Threads :
        LET c == call[t]
            w == c.width
            h == c.height
            as == c.ret.val.arrays
        IN  (Done(t) /\ c.success /\ c.format \in Supported
                /\ Len(c.input) = ImpliedLen(c.format, w, h)) =>
            /\ c.ret.ok
            /\ c.format = "RGB" =>
                /\ c.ret.val.kind = "array"
                /\ Len(as) = 1
                /\ as[1].shape = <<h, w, 3>>
                /\ Len(Elements(as[1])) = Len(c.input)
            /\ c.format = "YUYV" =>
                /\ c.ret.val.kind = "array"
                /\ Len(as) = 1
                /\ as[1].shape = <<h, w, 2>>
                /\ Len(Elements(as[1])) = Len(c.input)
            /\ c.format = "NV12" =>
                /\ c.ret.val.kind = "tuple"
                /\ Len(as) = 2
                /\ as[1].shape = <<h, w>>
                /\ as[2].shape = <<h \div 2, w \div 2, 2>>
                /\ Len(Elements(as[1])) + Len(Elements(as[2])) = Len(c.input)

\* An NV12 frame of odd width and height has been decoded.
C4_Witness ==
    \E t \in Threads :
        /\ Done(t) /\ call[t].ret.ok
        /\ call[t].format = "NV12" /\ call[t].width = 3 /\ call[t].height = 3
        /\ Len(call[t].input) = 11
        /\ Len(call[t].ret.val.arrays) = 2

\* C5: the returned arrays are the row-major reading of the source bytes b:
\* RGB result[r][c][k] = b[(r*width + c)*3 + k], YUYV result[r][c][k] =
\* b[(r*width + c)*2 + k], NV12 luma[r][c] = b[r*width + c] and
\* chroma[r][c][k] = b[height*width + (r*(width div 2) + c)*2 + k], each
\* of these a valid index of the array and of the source bytes.
C5_RowMajor ==
    \A t \in Threads :
        LET c == call[t]
            w == c.width
            h == c.height
            b == c.input
            as == c.ret.val.arrays
        IN  (Done(t) /\ c.success /\ c.ret.ok) =>
            /\ c.format = "RGB" =>
                \A r \in 0..(h - 1), cc \in 0..(w - 1), k \in 0..2 :
                    /\ InShape(as[1], <<r, cc, k>>)
                    /\ (r * w + cc) * 3 + k + 1 <= Len(b)
                    /\ Item(as[1], <<r, cc, k>>) = b[(r * w + cc) * 3 + k + 1]
            /\ c.format = "YUYV" =>
                \A r \in 0..(h - 1), cc \in 0..(w - 1), k \in 0..1 :
                    /\ InShape(as[1], <<r, cc, k>>)
                    /\ (r * w + cc) * 2 + k + 1 <= Len(b)
                    /\ Item(as[1], <<r, cc, k>>) = b[(r * w + cc) * 2 + k + 1]
            /\ c.format = "NV12" =>
                /\ \A r \in 0..(h - 1), cc \in 0..(w - 1) :
                    /\ InShape(as[1], <<r, cc>>)
                    /\ r * w + cc + 1 <= Len(b)
                    /\ Item(as[1], <<r, cc>>) = b[r * w + cc + 1]
                /\ \A r \in 0..((h \div 2) - 1), cc \in 0..((w \div 2) - 1), k \in 0..1 :
                    /\ InShape(as[2], <<r, cc, k>>)
                    /\ h * w + (r * (w \div 2) + cc) * 2 + k + 1 <= Len(b)
                    /\ Item(as[2], <<r, cc, k>>) =
                           b[h * w + (r * (w \div 2) + cc) * 2 + k + 1]

\* width=4, height=2, RGB over the bytes 0..23: result[0,0] = [0,1,2] and
\* result[1,3] = [21,22,23].
C5_Witness ==
    \E t \in Threads :
        /\ Done(t) /\ call[t].ret.ok
        /\ call[t].format = "RGB" /\ call[t].width = 4 /\ call[t].height = 2
        /\ call[t].input = [i \in 1..24 |-> i - 1]
        /\ [k \in 1..3 |-> Item(call[t].ret.val.arrays[1], <<0, 0, k - 1>>)] = <<0, 1, 2>>
        /\ [k \in 1..3 |-> Item(call[t].ret.val.arrays[1], <<1, 3, k - 1>>)] = <<21, 22, 23>>

\* C6: once the call has returned its array(s), no step (a write into the
\* buffer's memory, its release) changes any element of any of them.
C6_IndependentCopy ==
    [][\A t \in Threads :
        (Done(t) /\ call[t].ret.ok) =>
            /\ call'[t].ret = call[t].ret
            /\ \A i \in 1..Len(call[t].ret.val.arrays) :
                Elements(call[t].ret.val.arrays[i])' = Elements(call[t].ret.val.arrays[i])]_vars

\* An NV12 pair was returned and the source memory has since been changed.
C6_Witness ==
    \E t \in Threads :
        /\ Done(t) /\ call[t].ret.ok
        /\ call[t].format = "NV12" /\ call[t].height >= 2 /\ call[t].width >= 2
        /\ mem[call[t].buffer] # call[t].input
        /\ Elements(call[t].ret.val.arrays[1]) \o Elements(call[t].ret.val.arrays[2])
               = SubSeq(call[t].input, 1,
                        ImpliedLen("NV12", call[t].width, call[t].height))

\* C7: neither probe lets a fault escape: whatever way the external
\* process ends, detect_pkg_installed and detect_hailo_arch return a value,
\* False respectively None when the process failed.
C7_NoFaultEscapes ==
    (probe.pc = "done" /\ probe.fn \in {"detect_pkg_installed", "detect_hailo_arch"}) =>
        /\ probe.raised = ""
        /\ probe.outcome # "exit0" =>
            probe.ret = (IF probe.fn = "detect_pkg_installed" THEN PyBool(FALSE) ELSE PyNone)

\* C8: get_caps_from_pad always returns a triple: the structure's format,
\* width and height when caps are negotiated, (None, None, None) when not,
\* and something that unpacks into three values in every case.
C8_AlwaysTriple ==
    (probe.pc = "done" /\ probe.fn = "get_caps_from_pad") =>
        /\ probe.ret.t = "tuple"
        /\ Len(probe.ret.items) = 3
        /\ probe.outcome = "unnegotiated" => probe.ret = PyTuple(<<PyNone, PyNone, PyNone>>)
        /\ probe.outcome = "structure" =>
            probe.ret = PyTuple(<<PyStr(probe.pad.format), PyInt(probe.pad.width),
                                  PyInt(probe.pad.height)>>)

\* What one call returns or raises when nothing else runs, from its
\* arguments, the outcome of the map and the bytes mapped.
OwnedArray(shape, bytes) == [shape |-> shape, owned |-> TRUE, base |-> NoView, data |-> bytes]

TooSmall == Raise("TypeError", <<"buffer is too small for requested array">>)

AloneOutcome(t) ==
    LET c == call[t]
        w == c.width
        h == c.height
        b == c.input
    IN  IF ~c.success THEN MapError
        ELSE IF c.format \notin Supported THEN UnsupportedError(c.format)
        ELSE IF Len(b) < ImpliedLen(c.format, w, h) THEN TooSmall
        ELSE CASE c.format = "RGB" ->
                    Ok([kind |-> "array",
                        arrays |-> <<OwnedArray(<<h, w, 3>>, SubSeq(b, 1, h * w * 3))>>])
               [] c.format = "YUYV" ->
                    Ok([kind |-> "array",
                        arrays |-> <<OwnedArray(<<h, w, 2>>, SubSeq(b, 1, h * w * 2))>>])
               [] c.format = "NV12" ->
                    Ok([kind |-> "tuple",
                        arrays |-> <<OwnedArray(<<h, w>>, SubSeq(b, 1, h * w)),
                                     OwnedArray(<<h \div 2, w \div 2, 2>>,
                                                SubSeq(b, h * w + 1,
                                                       ImpliedLen("NV12", w, h)))>>])

C9_State ==
    /\ \A b \in Buffers : mapped[b] <= 1
    /\ \A t \in Threads :
        /\ call[t].success => call[t].input = Ramp(call[t].buffer, Len(call[t].input))
        /\ Done(t) =>
            /\ call[t].ret = AloneOutcome(t)
            /\ unmapCalls[call[t].buffer] = (IF call[t].success THEN 1 ELSE 0)
            /\ mapCalls[call[t].buffer] = (IF call[t].success THEN 1 ELSE 0)

C9_Step ==
    /\ FORMAT_HANDLERS' = FORMAT_HANDLERS
    /\ \A t \in Threads :
        call'[t] # call[t] =>
            /\ \A u \in Threads \ {t} : call'[u] = call[u]
            /\ \A b \in Buffers \ {call[t].buffer} :
                /\ mapped'[b] = mapped[b]
                /\ mapCalls'[b] = mapCalls[b]
                /\ unmapCalls'[b] = unmapCalls[b]
            /\ mem' = mem

\* C9: calls running concurrently on distinct buffers do not interfere: in
\* every interleaving each call ends with what it returns or raises when run
\* alone, no buffer is mapped more than once at a time, each mapped buffer is
\* unmapped exactly once by its caller, and no step of a call writes the
\* dispatch table, the other call's state or the other buffer.
C9_NoInterference == [](C9_State) /\ [][C9_Step]_vars

\* One call has returned its array and its buffer has been rewritten while
\* the other call, on the other buffer, still holds its mapping with its
\* result computed.
C9_Witness ==
    /\ Done(1) /\ call[1].ret.ok /\ call[1].format = "NV12"
    /\ mem[1] # call[1].input
    /\ call[2].pc = "finally" /\ call[2].ret.ok /\ call[2].format = "RGB"
    /\ mapped[2] = 1
    /\ call[1].buffer # call[2].buffer

\* A line the scan classifies.
Qualifies(line) ==
    Contains(line, <<"Device Architecture">>) /\ Contains(line, <<"HAILO8">>)

\* C10: on exit code 0 the result is the classification of the first line
\* that contains "Device Architecture" and "HAILO8": "hailo8l" if it
\* contains "HAILO8L", else "hailo8"; None if there is no such line; and the
\* result is always one of "hailo8", "hailo8l", None.
C10_FirstQualifyingLine ==
    (probe.pc = "done" /\ probe.fn = "detect_hailo_arch") =>
        /\ probe.ret \in {PyStr("hailo8"), PyStr("hailo8l"), PyNone}
        /\ probe.outcome = "exit0" =>
            LET lines == Split(probe.stdout)
                Q == {i \in 1..Len(lines) : Qualifies(lines[i])}
            IN  IF Q = {} THEN probe.ret = PyNone
                ELSE LET first == CHOOSE i \in Q : \A j \in Q : i <= j
                     IN  probe.ret = (IF Contains(lines[first], <<"HAILO8", "L">>)
                                      THEN PyStr("hailo8l") ELSE PyStr("hailo8"))

\* A "Device Architecture" line without "HAILO8" was skipped and the next
\* line, naming HAILO8L, was classified.
C10_Witness ==
    /\ probe.pc = "done" /\ probe.fn = "detect_hailo_arch"
    /\ probe.stdout = <<"Device Architecture", "\n", "Device Architecture", "HAILO8", "L">>
    /\ probe.ret = PyStr("hailo8l")

====
